---- MODULE Spec2Model ----
(***************************************************************************)
(* Model of the ET news bot (src/news_telegram_bot.py): the SQLite         *)
(* deduplication store (DatabaseManager), the feed fetcher (parse_feed),   *)
(* the scheduler job (feed_check_job), the asyncio delivery queue and the  *)
(* single delivery worker (worker_process_queue).                          *)
(*                                                                         *)
(* Granularity.  The bot runs on one asyncio event loop, so the code       *)
(* between two awaits that really suspend is atomic.  Every action below   *)
(* is one such stretch: it performs the awaited operation (a network call, *)
(* a thread-pool call on the store, a sleep) and the synchronous code that *)
(* follows it up to the next suspending await.  `await task_queue.put` on  *)
(* the unbounded queue never suspends, so the enqueue loop of one feed is  *)
(* one action.                                                             *)
(*                                                                         *)
(* A call handed to the thread pool (run_in_executor) runs at some moment  *)
(* between its submission and the resumption of the coroutine.  The reads  *)
(* of parse_feed (is_article_sent, is_title_sent) are taken at submission, *)
(* their result being used by the next action of the job; the writes of    *)
(* the worker (mark_article_sent, log_failed_send) are taken at            *)
(* resumption.                                                             *)
(***************************************************************************)
EXTENDS Integers, Sequences, FiniteSets, TLC

VARIABLES
    sent_articles,      \* table sent_articles: rows in insertion (id) order
    failed_sends,       \* table failed_sends: rows in insertion (id) order
    task_queue,         \* AsyncNewsMonitor.task_queue (asyncio.Queue), FIFO
    unfinished_tasks,   \* asyncio.Queue's count of items put and not yet task_done()
    processing_hashes,  \* AsyncNewsMonitor.processing_hashes (in-flight set)
    session,            \* AsyncNewsMonitor.session: "none" | "open" | "closed"
    worker_tasks,       \* number of live tasks running worker_wrapper
    worker,             \* position and locals of worker_process_queue
    cycle,              \* per scheduler job: position and locals of feed_check_job
    once_done,          \* the run_once job has fired in this process
    cycles_run,         \* number of fetch cycles started so far
    served,             \* number of entries the feed server has served so far
    fetch,              \* a fetch_url call on its own: what the server answers, the result
    sched,              \* the job queue on its own: the clock, the jobs' next run times
    stats,              \* position and locals of stats_command
    text,               \* a call of a text function on its own: arguments, result
    env,                \* the run's fixed surroundings: configured feeds, what the
                        \* feed server can serve, how many cycles the run takes
    next_id,            \* history: number of items enqueued so far (tags queue items)
    acked,              \* history: item tag -> number of task_done() calls for it
    sends,              \* history: hash -> successful send_photo calls in this process
    fail_calls,         \* history: hash -> [n: completed log_failed_send calls, msg: latest]
    mark_calls          \* history: hash -> fields of the first completed mark_article_sent

vars == <<sent_articles, failed_sends, task_queue, unfinished_tasks, processing_hashes,
          session, worker_tasks, worker, cycle, once_done, cycles_run, served, fetch,
          sched, stats, text, env, next_id, acked, sends, fail_calls, mark_calls>>

----------------------------------------------------------------------------
(* Bounds of the model *)

MaxEntries == 1     \* entries in one fetched feed document
MaxCycles == 2      \* fetch cycles started over a run
MaxServed == 2      \* entries the feed server serves over a run
MaxFeedEntries == 2 \* entries in one document of the runs of FeedSpec
MaxFeedCycles == 1  \* fetch cycles started over a run of FeedSpec
MaxStats == 1       \* /stats messages answered over a run of StatsSpec
MaxTime == 75       \* seconds of the clock in the runs of ScheduleSpec

----------------------------------------------------------------------------
(* Values *)

None == "None"

Guids == {1, 2}

\* NewsArticle.get_hash: md5 hex digest of the guid.  md5 is taken to be
\* collision free on the guids of the model; digests live in their own range.
get_hash(guid) == 100 + guid

Hashes == {get_hash(g) : g \in Guids}

Titles == {"T1", "T2"}

\* entry.get('published', ''): a triple <<kind, day, time of day>>.  Kind "" is
\* an entry without a date, "bad" a string parsedate_to_datetime rejects, "date"
\* an RFC 822 date.  Day Today - 1 is yesterday; time 0 is 00:00:00 and LastTime
\* is 23:59:59.
Today == 1
LastTime == 1
NoDate == <<"", 0, 0>>
BadDate == <<"bad", 0, 0>>
Dates == {<<"date", d, t>> : d \in {Today - 1, Today}, t \in 0..LastTime}
Published == {NoDate, BadDate} \cup Dates

\* The local pub_dt of parse_feed before its first assignment.
Unbound == <<"unbound", 0, 0>>

Entries == [guid : Guids, title : Titles, published : Published, image_url : {None, "img"}]

\* The configured feeds of the default configuration and of a feeds.json with two.
OneFeed == <<"Stock News">>
TwoFeeds == <<"Stock News", "Markets">>

----------------------------------------------------------------------------
(* DatabaseManager: the two tables and the statements run on them *)

\* Variant: the lookup by hash finds nothing.
is_article_sent_Never(table, article_hash) == FALSE

\* Variant: a hash with a Failure Record counts as sent.
is_article_sent_OrFailed(table, article_hash) ==
    \/ \E i \in 1..Len(table) : table[i].article_hash = article_hash
    \/ \E i \in 1..Len(failed_sends) : failed_sends[i].article_hash = article_hash

\* SELECT 1 FROM sent_articles WHERE article_hash = ?
is_article_sent(table, article_hash) ==
    \E i \in 1..Len(table) : table[i].article_hash = article_hash

\* SELECT 1 FROM sent_articles WHERE title = ?
is_title_sent(table, title) ==
    \E i \in 1..Len(table) : table[i].title = title

SentRow(article, message_id, feed_source) ==
    [article_hash |-> get_hash(article.guid), guid |-> article.guid,
     title |-> article.title, telegram_message_id |-> message_id,
     feed_source |-> feed_source]

\* Variant: the insert is never committed.
mark_article_sent_NoCommit(table, article, message_id, feed_source) == table

\* Variant: INSERT OR REPLACE, the row of a second insert takes the first one's place.
mark_article_sent_Replace(table, article, message_id, feed_source) ==
    IF is_article_sent(table, get_hash(article.guid))
    THEN [i \in 1..Len(table) |->
             IF table[i].article_hash = get_hash(article.guid)
             THEN SentRow(article, message_id, feed_source)
             ELSE table[i]]
    ELSE Append(table, SentRow(article, message_id, feed_source))

\* INSERT INTO sent_articles ...: article_hash is UNIQUE, the IntegrityError of a
\* second insert is swallowed and the table is left as it was.
mark_article_sent(table, article, message_id, feed_source) ==
    IF is_article_sent(table, get_hash(article.guid))
    THEN table
    ELSE Append(table, SentRow(article, message_id, feed_source))

\* Variant: the conflict branch overwrites the message and leaves retry_count.
log_failed_send_KeepsCount(table, article_hash, error_message) ==
    IF \E i \in 1..Len(table) : table[i].article_hash = article_hash
    THEN [i \in 1..Len(table) |->
             IF table[i].article_hash = article_hash
             THEN [table[i] EXCEPT !.error_message = error_message]
             ELSE table[i]]
    ELSE Append(table, [article_hash |-> article_hash, error_message |-> error_message,
                        retry_count |-> 1, resolved |-> FALSE])

\* INSERT INTO failed_sends ... VALUES (?, ?, 1) ON CONFLICT(article_hash) DO UPDATE
\* SET retry_count = retry_count + 1, error_message = ?
log_failed_send(table, article_hash, error_message) ==
    IF \E i \in 1..Len(table) : table[i].article_hash = article_hash
    THEN [i \in 1..Len(table) |->
             IF table[i].article_hash = article_hash
             THEN [table[i] EXCEPT !.retry_count = @ + 1,
                                   !.error_message = error_message]
             ELSE table[i]]
    ELSE Append(table, [article_hash |-> article_hash, error_message |-> error_message,
                        retry_count |-> 1, resolved |-> FALSE])

\* Variant: the failures are not counted.
get_stats_NoFailures(sent, failed) ==
    [total_sent |-> Len(sent), pending_failures |-> 0]

\* get_stats: the two counts that do not depend on the clock.
get_stats(sent, failed) ==
    [total_sent |-> Len(sent),
     pending_failures |-> Cardinality({i \in 1..Len(failed) : ~failed[i].resolved})]

----------------------------------------------------------------------------
(* The chat API's errors *)

\* str(te) of a TelegramError as its tokens: the maximal digit runs and the
\* text between them.
DigitRuns == {"1", "12"}
IntOf(s) == CASE s = "1" -> 1 [] s = "12" -> 12

\* telegram.error.RetryAfter(n): "Flood control exceeded. Retry in n seconds"
RetryAfter(n) == <<"Flood control exceeded", "Retry in", n, "seconds">>

TelegramErrors ==
    { RetryAfter("1"), RetryAfter("12"),
      <<"Flood control exceeded">>,
      <<"Bad Request: chat not found">>,
      <<"Timed out">> }

RenderErrors == { <<"cannot identify image file">>, <<"image file is truncated">> }
StoreErrors == { <<"database is locked">> }

\* `phrase in str(te)`
Contains(msg, phrase) == \E i \in 1..Len(msg) : msg[i] = phrase

\* "Flood control exceeded" in str(te) or "Retry in" in str(te)
IsFlood(msg) == Contains(msg, "Flood control exceeded") \/ Contains(msg, "Retry in")

\* re.findall(r'\d+', str(te))
IsDigitRun(t) == t \in DigitRuns
numbers(msg) == SelectSeq(msg, IsDigitRun)

FallbackWait == 30
PostSendSleep == 4
LoopErrorSleep == 1

\* Variant: the parsed number is used without the extra second.
wait_time_NoMargin(msg) ==
    IF numbers(msg) # <<>> THEN IntOf(numbers(msg)[1]) ELSE FallbackWait

\* wait_time = 30; if numbers: wait_time = int(numbers[0]) + 1
wait_time(msg) ==
    IF numbers(msg) # <<>> THEN IntOf(numbers(msg)[1]) + 1 ELSE FallbackWait

----------------------------------------------------------------------------
(* fetch_url *)

retries == 3
base_delay == 5

\* What one session.get can come to: status 200 with its body, another
\* status, aiohttp.ClientError, asyncio.TimeoutError.
Responses == {"200", "404", "ClientError", "TimeoutError"}

\* What the server answers to the successive attempts of one call.  One answer
\* more than the attempts the call may make.
Scripts == [1..(retries + 1) -> Responses]

RECURSIVE Pow2(_)
Pow2(n) == IF n = 0 THEN 1 ELSE 2 * Pow2(n - 1)

\* Variant: the same delay before every retry.
backoff_Fixed(attempt) == base_delay

\* delay = base_delay * (2 ** attempt)
backoff(attempt) == base_delay * Pow2(attempt)

\* Variant: the call gives up at the first answer that is not a 200.
fetch_loop_NoRetry(script, attempt, delays) ==
    IF script[attempt + 1] = "200"
    THEN [data |-> "bytes", attempts |-> attempt + 1, delays |-> delays]
    ELSE [data |-> None, attempts |-> attempt + 1, delays |-> delays]

\* for attempt in range(retries): a 200 returns the body; any other status and
\* any exception is logged, and followed by the backoff sleep unless the attempt
\* was the last.  After the loop: return None.  attempts and delays tell the
\* session.get calls made and the sleeps taken.
RECURSIVE fetch_loop(_, _, _)
fetch_loop(script, attempt, delays) ==
    IF attempt >= retries
    THEN [data |-> None, attempts |-> attempt, delays |-> delays]
    ELSE IF script[attempt + 1] = "200"
         THEN [data |-> "bytes", attempts |-> attempt + 1, delays |-> delays]
         ELSE IF attempt < retries - 1
              THEN fetch_loop(script, attempt + 1, Append(delays, backoff(attempt)))
              ELSE fetch_loop(script, attempt + 1, delays)

fetch_url(script) == fetch_loop(script, 0, <<>>)

\* What a fetch_url call can return.  The call touches nothing but its own
\* locals, so the jobs and the worker take it in one step.
FetchResults == {fetch_url(script).data : script \in Scripts}

NoFetch == [script |-> <<>>, called |-> FALSE,
            result |-> [data |-> None, attempts |-> 0, delays |-> <<>>]]

\* One fetch_url call against a server that answers by fetch.script.
FetchCall ==
    /\ fetch.script # <<>>
    /\ ~fetch.called
    /\ fetch' = [fetch EXCEPT !.called = TRUE, !.result = fetch_url(fetch.script)]
    /\ UNCHANGED <<sent_articles, failed_sends, task_queue, unfinished_tasks,
                   processing_hashes, session, worker_tasks, worker, cycle, once_done,
                   cycles_run, served, sched, stats, text, env, next_id, acked, sends,
                   fail_calls, mark_calls>>

----------------------------------------------------------------------------
(* worker_process_queue *)

NoItem == [article |-> [guid |-> 0, title |-> "", pub_date |-> NoDate,
                        image_url |-> None, key |-> Unbound],
           feed_name |-> "", id |-> 0]

NoDone == [id |-> 0, hash |-> 0, outcome |-> "none", err |-> <<>>, slept |-> 0]

\* What the shortening service does with one request: no request at all when
\* there is no session (session.get on None raises), an exception of the
\* client, a timeout, or a response with a status and a body.  A body is text
\* that is not JSON, or a JSON object, here by its keys ("absent" and None for
\* a key it lacks).
NoBody == [json |-> FALSE, success |-> "absent", data_url |-> None, url |-> None]
Bodies ==
    { NoBody,
      [json |-> TRUE, success |-> "absent", data_url |-> None, url |-> None],
      [json |-> TRUE, success |-> "true", data_url |-> "short", url |-> None],
      [json |-> TRUE, success |-> "true", data_url |-> None, url |-> None],
      [json |-> TRUE, success |-> "false", data_url |-> None, url |-> None],
      [json |-> TRUE, success |-> "absent", data_url |-> None, url |-> "short"],
      [json |-> TRUE, success |-> "false", data_url |-> None, url |-> "short"] }
NoAnswer == [kind |-> "none", status |-> 0, body |-> NoBody]
Answers ==
    {[kind |-> k, status |-> 0, body |-> NoBody] : k \in {"no_session", "exception", "timeout"}}
        \cup {[kind |-> "response", status |-> 404, body |-> NoBody]}
        \cup [kind : {"response"}, status : {200}, body : Bodies]

\* The worker between two items: no item in hand, locals cleared.  answer and
\* mess_id are history: what the shortening service answered for the item in
\* hand, and the message id send_photo returned for it.
Waiting(done) ==
    [pc |-> "get", item |-> NoItem, image_data |-> None, short_url |-> None,
     answer |-> NoAnswer, mess_id |-> None, gets |-> <<>>, err |-> <<>>, wait_time |-> 0,
     done |-> done]

WorkerOff == [Waiting(NoDone) EXCEPT !.pc = "off"]

\* The positions at which the worker holds a dequeued item.
Holding == {"image", "render", "shorten", "send", "mark", "sleep", "flood", "logfail"}

ItemHash(item) == get_hash(item.article.guid)

\* Variant: the finally block leaves the hash in the set.
Release_Leak(hashes, ahash) == hashes

\* if article.get_hash() in self.processing_hashes: self.processing_hashes.remove(...)
Release(hashes, ahash) == hashes \ {ahash}

\* finally: drop the hash from processing_hashes, task_queue.task_done(); the
\* worker then goes to next_pc.  `done` keeps how the item ended until the
\* next one is dequeued.
Finally(outcome, err, slept, next_pc) ==
    /\ processing_hashes' = Release(processing_hashes, ItemHash(worker.item))
    /\ unfinished_tasks' = unfinished_tasks - 1
    /\ acked' = [acked EXCEPT ![worker.item.id] = @ + 1]
    /\ worker' = [Waiting([id |-> worker.item.id, hash |-> ItemHash(worker.item),
                           outcome |-> outcome, err |-> err, slept |-> slept])
                    EXCEPT !.pc = next_pc]

\* Variant: the worker takes the item put last.
WorkerGet_Lifo ==
    /\ worker.pc = "get"
    /\ task_queue # <<>>
    /\ task_queue' = SubSeq(task_queue, 1, Len(task_queue) - 1)
    /\ worker' = [worker EXCEPT
                    !.item = task_queue[Len(task_queue)],
                    !.done = NoDone,
                    !.pc = IF task_queue[Len(task_queue)].article.image_url # None /\ session = "open"
                           THEN "image" ELSE "render"]
    /\ UNCHANGED <<sent_articles, failed_sends, unfinished_tasks, processing_hashes,
                   session, worker_tasks, cycle, once_done, cycles_run, served, fetch,
                   sched, stats, text, env, next_id, acked, sends, fail_calls,
                   mark_calls>>

\* item = await self.task_queue.get(); then up to the first await of the body:
\* the image fetch when the article has an image URL and the session exists,
\* else the rendering.
WorkerGet ==
    /\ worker.pc = "get"
    /\ task_queue # <<>>
    /\ task_queue' = Tail(task_queue)
    /\ worker' = [worker EXCEPT
                    !.item = Head(task_queue),
                    !.done = NoDone,
                    !.pc = IF Head(task_queue).article.image_url # None /\ session = "open"
                           THEN "image" ELSE "render"]
    /\ UNCHANGED <<sent_articles, failed_sends, unfinished_tasks, processing_hashes,
                   session, worker_tasks, cycle, once_done, cycles_run, served, fetch,
                   sched, stats, text, env, next_id, acked, sends, fail_calls,
                   mark_calls>>

\* Variant: a fetch that returns no data is taken as the item's failure.
WorkerImage_Fatal ==
    /\ worker.pc = "image"
    /\ \E data \in FetchResults :
          worker' = [worker EXCEPT !.image_data = data,
                                   !.err = IF data = None THEN <<"no image">> ELSE @,
                                   !.pc = IF data = None THEN "logfail" ELSE "render"]
    /\ UNCHANGED <<sent_articles, failed_sends, task_queue, unfinished_tasks,
                   processing_hashes, session, worker_tasks, cycle, once_done,
                   cycles_run, served, fetch, sched, stats, text, env, next_id, acked,
                   sends, fail_calls, mark_calls>>

\* image_data = await self.fetch_url(...): the bytes, or None after the retries.
WorkerImage ==
    /\ worker.pc = "image"
    /\ \E data \in FetchResults :
          worker' = [worker EXCEPT !.image_data = data, !.pc = "render"]
    /\ UNCHANGED <<sent_articles, failed_sends, task_queue, unfinished_tasks,
                   processing_hashes, session, worker_tasks, cycle, once_done,
                   cycles_run, served, fetch, sched, stats, text, env, next_id, acked,
                   sends, fail_calls, mark_calls>>

\* generate_news_image(title, description, timestamp, image_url) of the image
\* generator: `if image_url: news_img = self.download_image(image_url)`, and
\* download_image calls requests.get(url, timeout=5) under a bare except.  The
\* arguments of the requests.get calls of one rendering.
generate_news_image_gets(image_url) ==
    IF image_url # None THEN <<image_url>> ELSE <<>>

\* image_bio = await run_in_executor(generate_news_image, title, description,
\* pub_date, image_data): the image, or an exception, raised before or after
\* the generator came to the image, which `except Exception` takes to
\* log_failed_send.
WorkerRender ==
    /\ worker.pc = "render"
    /\ \/ worker' = [worker EXCEPT !.pc = "shorten",
                                   !.gets = generate_news_image_gets(worker.image_data)]
       \/ \E e \in RenderErrors, g \in {<<>>, generate_news_image_gets(worker.image_data)} :
             worker' = [worker EXCEPT !.pc = "logfail", !.err = e, !.gets = g]
    /\ UNCHANGED <<sent_articles, failed_sends, task_queue, unfinished_tasks,
                   processing_hashes, session, worker_tasks, cycle, once_done,
                   cycles_run, served, fetch, sched, stats, text, env, next_id, acked,
                   sends, fail_calls, mark_calls>>

\* Variant: a failure of the service leaves no link.
shorten_url_NoFallback(long_url, answer) ==
    IF answer.kind = "response" /\ answer.status = 200 /\ answer.body.data_url # None
    THEN answer.body.data_url
    ELSE None

\* shorten_url: the whole body is under try / except Exception, which returns
\* long_url.  On status 200 resp.json() is read (it raises on a body that is
\* not JSON): data['data']['url'] when data['success'] is true (KeyError when
\* the key is missing), else data['url'] when the body has that key; every
\* other response falls through to `return long_url`.
shorten_url(long_url, answer) ==
    IF answer.kind # "response" \/ answer.status # 200 \/ ~answer.body.json
    THEN long_url
    ELSE IF answer.body.success = "true"
         THEN (IF answer.body.data_url # None THEN answer.body.data_url ELSE long_url)
         ELSE IF answer.body.url # None THEN answer.body.url ELSE long_url

\* short_url = await self.shorten_url(self.session, btn_url)
WorkerShorten ==
    /\ worker.pc = "shorten"
    /\ \E answer \in Answers :
          /\ answer.kind = "no_session" <=> session # "open"
          /\ worker' = [worker EXCEPT !.short_url = shorten_url("long", answer),
                                      !.answer = answer,
                                      !.pc = "send"]
    /\ UNCHANGED <<sent_articles, failed_sends, task_queue, unfinished_tasks,
                   processing_hashes, session, worker_tasks, cycle, once_done,
                   cycles_run, served, fetch, sched, stats, text, env, next_id, acked,
                   sends, fail_calls, mark_calls>>

\* The message ids the chat API gives to the messages it accepts, as the text
\* the telegram_message_id column holds.
MessageIds == {"41"}

\* await context.bot.send_photo(...) returns a Message, which the code does not
\* bind (mess_id = "0" is assigned and not used): the worker goes on to
\* mark_article_sent.  short_url is not read again.
WorkerSendOk ==
    /\ worker.pc = "send"
    /\ \E m \in MessageIds :
          worker' = [worker EXCEPT !.pc = "mark", !.short_url = None,
                                   !.answer = NoAnswer, !.mess_id = m]
    /\ sends' = [sends EXCEPT ![ItemHash(worker.item)] = @ + 1]
    /\ UNCHANGED <<sent_articles, failed_sends, task_queue, unfinished_tasks,
                   processing_hashes, session, worker_tasks, cycle, once_done,
                   cycles_run, served, fetch, sched, stats, text, env, next_id, acked,
                   fail_calls, mark_calls>>

\* send_photo raises a TelegramError with a flood-control message: the worker
\* computes wait_time and sleeps.
WorkerSendFlood ==
    /\ worker.pc = "send"
    /\ \E te \in TelegramErrors :
          /\ IsFlood(te)
          /\ worker' = [worker EXCEPT !.pc = "flood", !.err = te, !.short_url = None,
                                      !.answer = NoAnswer,
                                      !.wait_time = wait_time(te)]
    /\ UNCHANGED <<sent_articles, failed_sends, task_queue, unfinished_tasks,
                   processing_hashes, session, worker_tasks, cycle, once_done,
                   cycles_run, served, fetch, sched, stats, text, env, next_id, acked,
                   sends, fail_calls, mark_calls>>

\* Variant: the handler of a TelegramError leaves the loop body without finally.
WorkerSendError_NoFinally ==
    /\ worker.pc = "send"
    /\ \E te \in TelegramErrors : ~IsFlood(te)
    /\ worker' = Waiting(NoDone)
    /\ UNCHANGED <<sent_articles, failed_sends, task_queue, unfinished_tasks,
                   processing_hashes, session, worker_tasks, cycle, once_done,
                   cycles_run, served, fetch, sched, stats, text, env, next_id, acked,
                   sends, fail_calls, mark_calls>>

\* Variant: after a TelegramError the worker goes on to mark_article_sent.
WorkerSendError_Marks ==
    /\ worker.pc = "send"
    /\ \E te \in TelegramErrors :
          /\ ~IsFlood(te)
          /\ worker' = [worker EXCEPT !.pc = "mark", !.err = te, !.short_url = None,
                                      !.answer = NoAnswer]
    /\ UNCHANGED <<sent_articles, failed_sends, task_queue, unfinished_tasks,
                   processing_hashes, session, worker_tasks, cycle, once_done,
                   cycles_run, served, fetch, sched, stats, text, env, next_id, acked,
                   sends, fail_calls, mark_calls>>

\* send_photo raises any other TelegramError: it is logged, then finally.
WorkerSendError ==
    /\ worker.pc = "send"
    /\ \E te \in TelegramErrors :
          /\ ~IsFlood(te)
          /\ Finally("telegram_error", te, 0, "get")
    /\ UNCHANGED <<sent_articles, failed_sends, task_queue, session, worker_tasks,
                   cycle, once_done, cycles_run, served, fetch, sched, stats, text, env,
                   next_id, sends, fail_calls, mark_calls>>

\* The history of mark_article_sent calls that ran to their end: per hash, how
\* many, and the row the first of them carried.
NoCalls == [n |-> 0, row |-> SentRow(NoItem.article, "", "")]
NoteMark(calls, item, message_id) ==
    [calls EXCEPT ![ItemHash(item)] =
        [n |-> @.n + 1,
         row |-> IF @.n = 0 THEN SentRow(item.article, message_id, item.feed_name)
                 ELSE @.row]]

\* The history of log_failed_send calls that ran to their end: per hash, how
\* many, and the message of the latest.
NoFailCalls == [n |-> 0, msg |-> <<>>]
NoteFail(calls, hash, msg) == [calls EXCEPT ![hash] = [n |-> @.n + 1, msg |-> msg]]

\* The outcomes of a call on the store: <<>> for a normal return, else the
\* message of the sqlite3 error it raises.
StoreOutcomes == {<<>>} \cup StoreErrors

\* Variant: the hash is released as soon as the send is recorded.
WorkerMark_ReleasesEarly ==
    /\ worker.pc = "mark"
    /\ \E e \in StoreOutcomes :
          IF e = <<>>
          THEN /\ sent_articles' = mark_article_sent(sent_articles, worker.item.article,
                                                     "async_sent", worker.item.feed_name)
               /\ mark_calls' = NoteMark(mark_calls, worker.item, "async_sent")
               /\ processing_hashes' = Release(processing_hashes, ItemHash(worker.item))
               /\ worker' = [worker EXCEPT !.pc = "sleep"]
          ELSE /\ worker' = [worker EXCEPT !.pc = "logfail", !.err = e]
               /\ UNCHANGED <<sent_articles, mark_calls, processing_hashes>>
    /\ UNCHANGED <<failed_sends, task_queue, unfinished_tasks, session, worker_tasks,
                   cycle, once_done, cycles_run, served, fetch, sched, stats, text, env,
                   next_id, acked, sends, fail_calls>>

\* Variant: recording the send resolves the Failure Record of the hash.
WorkerMark_Resolves ==
    /\ worker.pc = "mark"
    /\ \E e \in StoreOutcomes :
          IF e = <<>>
          THEN /\ sent_articles' = mark_article_sent(sent_articles, worker.item.article,
                                                     "async_sent", worker.item.feed_name)
               /\ mark_calls' = NoteMark(mark_calls, worker.item, "async_sent")
               /\ failed_sends' =
                     [i \in 1..Len(failed_sends) |->
                        IF failed_sends[i].article_hash = ItemHash(worker.item)
                        THEN [failed_sends[i] EXCEPT !.resolved = TRUE]
                        ELSE failed_sends[i]]
               /\ worker' = [worker EXCEPT !.pc = "sleep"]
          ELSE /\ worker' = [worker EXCEPT !.pc = "logfail", !.err = e]
               /\ UNCHANGED <<sent_articles, mark_calls, failed_sends>>
    /\ UNCHANGED <<task_queue, unfinished_tasks, processing_hashes, session,
                   worker_tasks, cycle, once_done, cycles_run, served, fetch, sched,
                   stats, text, env, next_id, acked, sends, fail_calls>>

\* await run_in_executor(self.db.mark_article_sent, article, "async_sent", feed_name);
\* an error of the store goes to `except Exception` and on to log_failed_send.
WorkerMark ==
    /\ worker.pc = "mark"
    /\ \E e \in StoreOutcomes :
          IF e = <<>>
          THEN /\ sent_articles' = mark_article_sent(sent_articles, worker.item.article,
                                                     "async_sent", worker.item.feed_name)
               /\ mark_calls' = NoteMark(mark_calls, worker.item, "async_sent")
               /\ worker' = [worker EXCEPT !.pc = "sleep"]
          ELSE /\ worker' = [worker EXCEPT !.pc = "logfail", !.err = e]
               /\ UNCHANGED <<sent_articles, mark_calls>>
    /\ UNCHANGED <<failed_sends, task_queue, unfinished_tasks, processing_hashes,
                   session, worker_tasks, cycle, once_done, cycles_run, served, fetch,
                   sched, stats, text, env, next_id, acked, sends, fail_calls>>

\* await asyncio.sleep(4) after a recorded send, then finally.
WorkerSleep ==
    /\ worker.pc = "sleep"
    /\ Finally("sent", <<>>, PostSendSleep, "get")
    /\ UNCHANGED <<sent_articles, failed_sends, task_queue, session, worker_tasks,
                   cycle, once_done, cycles_run, served, fetch, sched, stats, text, env,
                   next_id, sends, fail_calls, mark_calls>>

\* Variant: the dropped item is put back on the queue.
WorkerFlood_Requeue ==
    /\ worker.pc = "flood"
    /\ Finally("flood", worker.err, worker.wait_time, "get")
    /\ task_queue' = Append(task_queue, worker.item)
    /\ UNCHANGED <<sent_articles, failed_sends, session, worker_tasks, cycle, once_done,
                   cycles_run, served, fetch, sched, stats, text, env, next_id, sends,
                   fail_calls, mark_calls>>

\* await asyncio.sleep(wait_time) on flood control; the item is dropped, then finally.
WorkerFlood ==
    /\ worker.pc = "flood"
    /\ Finally("flood", worker.err, worker.wait_time, "get")
    /\ UNCHANGED <<sent_articles, failed_sends, task_queue, session, worker_tasks,
                   cycle, once_done, cycles_run, served, fetch, sched, stats, text, env,
                   next_id, sends, fail_calls, mark_calls>>

\* except Exception: await run_in_executor(self.db.log_failed_send, hash, str(e)),
\* then finally.  When the store call itself raises, finally still runs and the
\* error reaches the loop's own `except Exception`, which sleeps one second.
WorkerLogFail ==
    /\ worker.pc = "logfail"
    /\ \E e \in StoreOutcomes :
          IF e = <<>>
          THEN /\ failed_sends' = log_failed_send(failed_sends, ItemHash(worker.item),
                                                  worker.err)
               /\ fail_calls' = NoteFail(fail_calls, ItemHash(worker.item), worker.err)
               /\ Finally("failed", worker.err, 0, "get")
          ELSE /\ Finally("failed_unrecorded", worker.err, 0, "loop_error")
               /\ UNCHANGED <<failed_sends, fail_calls>>
    /\ UNCHANGED <<sent_articles, task_queue, session, worker_tasks, cycle, once_done,
                   cycles_run, served, fetch, sched, stats, text, env, next_id, sends,
                   mark_calls>>

\* Variant: the loop's handler leaves the loop.
WorkerLoopError_Break ==
    /\ worker.pc = "loop_error"
    /\ worker' = [worker EXCEPT !.pc = "stopped"]
    /\ UNCHANGED <<sent_articles, failed_sends, task_queue, unfinished_tasks,
                   processing_hashes, session, worker_tasks, cycle, once_done,
                   cycles_run, served, fetch, sched, stats, text, env, next_id, acked,
                   sends, fail_calls, mark_calls>>

\* except Exception at the loop: await asyncio.sleep(1), then the next turn.
WorkerLoopError ==
    /\ worker.pc = "loop_error"
    /\ worker' = [worker EXCEPT !.pc = "get"]
    /\ UNCHANGED <<sent_articles, failed_sends, task_queue, unfinished_tasks,
                   processing_hashes, session, worker_tasks, cycle, once_done,
                   cycles_run, served, fetch, sched, stats, text, env, next_id, acked,
                   sends, fail_calls, mark_calls>>

----------------------------------------------------------------------------
(* parse_feed and feed_check_job *)

Jobs == {"once", "repeating"}

\* A job that is not running feed_check_job.  Of a running job: the feed it is
\* at, the entries of parse_feed's loop still to do, the articles collected,
\* the local pub_dt, the answer of the store call in the thread pool; and as
\* history the hashes that had a Sent Record when the cycle started and the
\* feeds of this cycle whose fetch returned no data.
IdleCycle == [pc |-> "idle", feed |-> 0, entries |-> <<>>, articles |-> <<>>,
              pub_dt |-> Unbound, res |-> FALSE, sent_before |-> {}, nodata |-> {}]

\* The documents a feed can return: up to n entries of the pool.
FeedDocs(pool, n) == UNION {[1..k -> pool] : k \in 0..n}

\* The date filter at the top of parse_feed's loop, run over the entries until
\* one passes: an entry without a date passes unfiltered, an unparseable date
\* drops the entry, a parsed date is kept in pub_dt and drops the entry unless
\* it is today's.  Returns the entries from the first one that passes, and pub_dt.
RECURSIVE DateFilter(_, _)
DateFilter(entries, pub_dt) ==
    IF entries = <<>> THEN [entries |-> <<>>, pub_dt |-> pub_dt]
    ELSE LET published == Head(entries).published IN
         CASE published[1] = "" -> [entries |-> entries, pub_dt |-> pub_dt]
           [] published[1] = "bad" -> DateFilter(Tail(entries), pub_dt)
           [] OTHER ->
                IF published[2] # Today
                THEN DateFilter(Tail(entries), published)
                ELSE [entries |-> entries, pub_dt |-> published]

\* NewsArticle(...) for an entry, with the sort key _pub_datetime set from
\* pub_dt when that local is bound.
Article(entry, pub_dt) ==
    [guid |-> entry.guid, title |-> entry.title, pub_date |-> entry.published,
     image_url |-> entry.image_url, key |-> pub_dt]

\* key(a) <= key(b) for the sort keys getattr(x, '_pub_datetime', datetime.min)
KeyLeq(a, b) ==
    \/ a.key = Unbound
    \/ /\ b.key # Unbound
       /\ \/ a.key[2] < b.key[2]
          \/ a.key[2] = b.key[2] /\ a.key[3] <= b.key[3]

\* The feed's dates carry a zone, so their datetimes are aware and datetime.min
\* is naive: list.sort raises TypeError when it has to compare one with the other.
Sortable(articles) ==
    \/ Len(articles) <= 1
    \/ \A i \in 1..Len(articles) : articles[i].key = Unbound
    \/ \A i \in 1..Len(articles) : articles[i].key # Unbound

\* articles.sort(key=...): stable, ascending.
RECURSIVE InsertByKey(_, _)
InsertByKey(sorted, a) ==
    IF sorted = <<>> THEN <<a>>
    ELSE IF KeyLeq(Head(sorted), a)
         THEN <<Head(sorted)>> \o InsertByKey(Tail(sorted), a)
         ELSE <<a>> \o sorted

RECURSIVE SortByKey(_)
SortByKey(articles) ==
    IF articles = <<>> THEN <<>>
    ELSE InsertByKey(SortByKey(SubSeq(articles, 1, Len(articles) - 1)),
                     articles[Len(articles)])

\* Variant: feed_check_job enqueues without the in-flight test.
InFlight_NoTest(hashes, ahash) == FALSE

\* Whether feed_check_job skips an article at its in-flight test.
InFlight(hashes, ahash) == ahash \in hashes

\* The loop `for article in articles` of feed_check_job: an article whose hash
\* is in processing_hashes is skipped, any other has its hash added and is put
\* on the queue with the feed's name.  q: queue, p: processing_hashes, n: items
\* put so far.
RECURSIVE EnqueueAll(_, _, _)
EnqueueAll(articles, feed_name, st) ==
    IF articles = <<>> THEN st
    ELSE LET a == Head(articles)
             ahash == get_hash(a.guid) IN
         IF InFlight(st.p, ahash)
         THEN EnqueueAll(Tail(articles), feed_name, st)
         ELSE EnqueueAll(Tail(articles), feed_name,
                         [q |-> Append(st.q, [article |-> a, feed_name |-> feed_name,
                                              id |-> st.n + 1]),
                          p |-> st.p \cup {ahash},
                          n |-> st.n + 1])

\* The end of parse_feed for the job's current feed and what feed_check_job
\* does with the articles: sort, enqueue, go to the next feed or end the cycle.
\* A TypeError of the sort ends the job.
EndFeed(j, articles, nodata) ==
    IF ~Sortable(articles)
    THEN /\ cycle' = [cycle EXCEPT ![j] = IdleCycle]
         /\ UNCHANGED <<task_queue, processing_hashes, next_id, unfinished_tasks>>
    ELSE LET st == EnqueueAll(SortByKey(articles), env.feeds[cycle[j].feed],
                              [q |-> task_queue, p |-> processing_hashes, n |-> next_id])
         IN /\ task_queue' = st.q
            /\ processing_hashes' = st.p
            /\ next_id' = st.n
            /\ unfinished_tasks' = unfinished_tasks + (st.n - next_id)
            /\ cycle' = [cycle EXCEPT ![j] =
                            IF cycle[j].feed < Len(env.feeds)
                            THEN [IdleCycle EXCEPT !.pc = "fetch",
                                                   !.feed = cycle[j].feed + 1,
                                                   !.sent_before = cycle[j].sent_before,
                                                   !.nodata = nodata]
                            ELSE IdleCycle]

\* parse_feed's loop from `entries` on, up to its next await: the hash check
\* of the first entry that passes the date filter (res: what the store answers),
\* or the end of the feed.
Scan(j, entries, articles, pub_dt) ==
    LET r == DateFilter(entries, pub_dt) IN
    IF r.entries # <<>>
    THEN /\ cycle' = [cycle EXCEPT ![j] =
                        [@ EXCEPT !.pc = "hash", !.entries = r.entries,
                                  !.articles = articles, !.pub_dt = r.pub_dt,
                                  !.res = is_article_sent(sent_articles,
                                              get_hash(Head(r.entries).guid))]]
         /\ UNCHANGED <<task_queue, processing_hashes, next_id, unfinished_tasks>>
    ELSE EndFeed(j, articles, cycle[j].nodata)

\* Variant: a feed without data ends the job.
NoData_Abort(j) ==
    /\ cycle' = [cycle EXCEPT ![j] = IdleCycle]
    /\ UNCHANGED <<task_queue, processing_hashes, next_id, unfinished_tasks>>

\* if not xml_bytes: return [] -- the feed gives no articles, and
\* feed_check_job goes on with the next feed.
NoData(j) == EndFeed(j, <<>>, cycle[j].nodata \cup {cycle[j].feed})

\* The articles of parse_feed once its pending store call has answered: after
\* the title check, the entry at hand is appended unless its title was sent.
Resumed(c) ==
    IF c.pc = "title" /\ ~c.res
    THEN Append(c.articles, Article(Head(c.entries), c.pub_dt))
    ELSE c.articles

\* Variant: the job goes on to the feeds whether there is a session or not.
StartCycle_NoSessionTest(j) ==
    /\ cycle[j].pc = "idle"
    /\ worker.pc # "stopped"
    /\ cycles_run < env.max_cycles
    /\ j = "once" => ~once_done
    /\ cycles_run' = cycles_run + 1
    /\ once_done' = (once_done \/ j = "once")
    /\ cycle' = [cycle EXCEPT ![j] =
                    [IdleCycle EXCEPT
                        !.pc = "fetch", !.feed = 1,
                        !.sent_before = {sent_articles[i].article_hash :
                                            i \in 1..Len(sent_articles)}]]
    /\ UNCHANGED <<sent_articles, failed_sends, task_queue, unfinished_tasks,
                   processing_hashes, session, worker_tasks, worker, served, fetch,
                   sched, stats, text, env, next_id, acked, sends, fail_calls,
                   mark_calls>>

\* The scheduler starts feed_check_job for job j; without a session the job
\* returns at once.  run_once fires once in a process.
StartCycle(j) ==
    /\ cycle[j].pc = "idle"
    /\ worker.pc # "stopped"
    /\ cycles_run < env.max_cycles
    /\ j = "once" => ~once_done
    /\ cycles_run' = cycles_run + 1
    /\ once_done' = (once_done \/ j = "once")
    /\ cycle' = [cycle EXCEPT ![j] =
                    IF session = "open"
                    THEN [IdleCycle EXCEPT
                            !.pc = "fetch", !.feed = 1,
                            !.sent_before = {sent_articles[i].article_hash :
                                                i \in 1..Len(sent_articles)}]
                    ELSE IdleCycle]
    /\ UNCHANGED <<sent_articles, failed_sends, task_queue, unfinished_tasks,
                   processing_hashes, session, worker_tasks, worker, served, fetch,
                   sched, stats, text, env, next_id, acked, sends, fail_calls,
                   mark_calls>>

\* xml_bytes = await self.fetch_url(...), feedparser.parse: no data after the
\* retries, or a document; then the loop over its entries.
CycleFetch(j) ==
    /\ cycle[j].pc = "fetch"
    /\ \E data \in FetchResults :
          IF data = None
          THEN /\ NoData(j)
               /\ served' = served
          ELSE \E doc \in FeedDocs(env.pool, env.max_entries) :
                  /\ served + Len(doc) <= MaxServed
                  /\ served' = served + Len(doc)
                  /\ Scan(j, doc, <<>>, Unbound)
    /\ UNCHANGED <<sent_articles, failed_sends, session, worker_tasks, worker,
                   once_done, cycles_run, fetch, sched, stats, text, env, acked, sends,
                   fail_calls, mark_calls>>

\* is_sent_hash = await run_in_executor(self.db.is_article_sent, article_hash)
\* resumes: a sent hash skips the entry, else the title check is handed over.
CycleCheckHash(j) ==
    /\ cycle[j].pc = "hash"
    /\ LET c == cycle[j]
           entry == Head(c.entries) IN
       IF c.res
       THEN Scan(j, Tail(c.entries), c.articles, c.pub_dt)
       ELSE /\ cycle' = [cycle EXCEPT ![j] =
                           [@ EXCEPT !.pc = "title",
                                     !.res = is_title_sent(sent_articles, entry.title)]]
            /\ UNCHANGED <<task_queue, processing_hashes, next_id, unfinished_tasks>>
    /\ UNCHANGED <<sent_articles, failed_sends, session, worker_tasks, worker,
                   once_done, cycles_run, served, fetch, sched, stats, text, env, acked,
                   sends, fail_calls, mark_calls>>

\* is_sent_title = await run_in_executor(self.db.is_title_sent, title) resumes:
\* a sent title skips the entry, else the entry becomes an article of this call.
CycleCheckTitle(j) ==
    /\ cycle[j].pc = "title"
    /\ LET c == cycle[j] IN
       Scan(j, Tail(c.entries), Resumed(c), c.pub_dt)
    /\ UNCHANGED <<sent_articles, failed_sends, session, worker_tasks, worker,
                   once_done, cycles_run, served, fetch, sched, stats, text, env, acked,
                   sends, fail_calls, mark_calls>>

----------------------------------------------------------------------------
(* stats_command *)

\* stats_command between two /stats messages; replies counts the replies sent.
NoStats == [pc |-> "idle", result |-> [total_sent |-> 0, pending_failures |-> 0],
            replies |-> 0]

\* A /stats message arrives: stats = await run_in_executor(self.db.get_stats).
StatsQuery ==
    /\ worker.pc \notin {"off", "stopped"}
    /\ stats.pc = "idle"
    /\ stats.replies < MaxStats
    /\ stats' = [stats EXCEPT !.pc = "reply",
                              !.result = get_stats(sent_articles, failed_sends)]
    /\ UNCHANGED <<sent_articles, failed_sends, task_queue, unfinished_tasks,
                   processing_hashes, session, worker_tasks, worker, cycle, once_done,
                   cycles_run, served, fetch, sched, text, env, next_id, acked, sends,
                   fail_calls, mark_calls>>

\* q_size = self.task_queue.qsize() is read and the text sent:
\* await update.message.reply_text(text)
StatsReply ==
    /\ stats.pc = "reply"
    /\ stats' = [NoStats EXCEPT !.replies = stats.replies + 1]
    /\ UNCHANGED <<sent_articles, failed_sends, task_queue, unfinished_tasks,
                   processing_hashes, session, worker_tasks, worker, cycle, once_done,
                   cycles_run, served, fetch, sched, text, env, next_id, acked, sends,
                   fail_calls, mark_calls>>

StatsNext == StatsQuery \/ StatsReply

----------------------------------------------------------------------------
(* The process: post_init, shutdown, restart *)

\* Variant: the hook runs again in a process whose worker task is running.
post_init_Again ==
    /\ worker.pc # "stopped"
    /\ worker_tasks < 2
    /\ session' = "open"
    /\ worker_tasks' = worker_tasks + 1
    /\ worker' = IF worker.pc = "off" THEN Waiting(NoDone) ELSE worker
    /\ UNCHANGED <<sent_articles, failed_sends, task_queue, unfinished_tasks,
                   processing_hashes, cycle, once_done, cycles_run, served, fetch,
                   sched, stats, text, env, next_id, acked, sends, fail_calls,
                   mark_calls>>

\* post_init, the hook the application runs once when it starts: the session is
\* created and asyncio.create_task starts the one worker task.
post_init ==
    /\ worker.pc = "off"
    /\ session' = "open"
    /\ worker_tasks' = worker_tasks + 1
    /\ worker' = Waiting(NoDone)
    /\ UNCHANGED <<sent_articles, failed_sends, task_queue, unfinished_tasks,
                   processing_hashes, cycle, once_done, cycles_run, served, fetch,
                   sched, stats, text, env, next_id, acked, sends, fail_calls,
                   mark_calls>>

\* The process stops: the jobs end, the worker task is cancelled at its await
\* (with an item in hand its finally runs before the loop breaks), post_shutdown
\* closes the session.  A store call already handed to the thread pool may
\* still run to its end.
Shutdown ==
    /\ worker.pc # "stopped"
    /\ session' = IF session = "open" THEN "closed" ELSE session
    /\ worker_tasks' = 0
    /\ cycle' = [j \in Jobs |-> IdleCycle]
    /\ IF worker.pc \in Holding
       THEN Finally("cancelled", <<>>, 0, "stopped")
       ELSE /\ worker' = [worker EXCEPT !.pc = "stopped"]
            /\ UNCHANGED <<processing_hashes, unfinished_tasks, acked>>
    /\ \E runs \in BOOLEAN :
          /\ IF runs /\ worker.pc = "mark"
             THEN /\ sent_articles' = mark_article_sent(sent_articles, worker.item.article,
                                                        "async_sent", worker.item.feed_name)
                  /\ mark_calls' = NoteMark(mark_calls, worker.item, "async_sent")
             ELSE UNCHANGED <<sent_articles, mark_calls>>
          /\ IF runs /\ worker.pc = "logfail"
             THEN /\ failed_sends' = log_failed_send(failed_sends, ItemHash(worker.item),
                                                     worker.err)
                  /\ fail_calls' = NoteFail(fail_calls, ItemHash(worker.item), worker.err)
             ELSE UNCHANGED <<failed_sends, fail_calls>>
    /\ stats' = [NoStats EXCEPT !.replies = stats.replies]
    /\ UNCHANGED <<task_queue, once_done, cycles_run, served, fetch, sched, text, env,
                   next_id, sends>>

\* Variant: the new process finds the queue and the in-flight set of the last
\* one.
Restart_KeepsQueue ==
    /\ worker.pc = "stopped"
    /\ session' = "none"
    /\ worker_tasks' = 0
    /\ worker' = WorkerOff
    /\ cycle' = [j \in Jobs |-> IdleCycle]
    /\ once_done' = FALSE
    /\ sends' = [h \in Hashes |-> 0]
    /\ UNCHANGED <<sent_articles, failed_sends, task_queue, unfinished_tasks,
                   processing_hashes, cycles_run, served, fetch, sched, stats, text,
                   env, next_id, acked, fail_calls, mark_calls>>

\* A new process on the same database file: __init__ builds an empty queue and
\* an empty in-flight set; the tables are as the last process left them.
Restart ==
    /\ worker.pc = "stopped"
    /\ task_queue' = <<>>
    /\ unfinished_tasks' = 0
    /\ processing_hashes' = {}
    /\ session' = "none"
    /\ worker_tasks' = 0
    /\ worker' = WorkerOff
    /\ cycle' = [j \in Jobs |-> IdleCycle]
    /\ once_done' = FALSE
    /\ sends' = [h \in Hashes |-> 0]
    /\ UNCHANGED <<sent_articles, failed_sends, cycles_run, served, fetch, sched, stats,
                   text, env, next_id, acked, fail_calls, mark_calls>>

----------------------------------------------------------------------------
(* The job queue of start_bot *)

once_when == 1          \* run_once(self.feed_check_job, 1): seconds after the start
repeating_first == 10   \* run_repeating(..., first=10): seconds after the start
SecondsPerMinute == 60  \* interval=self.check_interval * 60

\* CHECK_INTERVAL_MINUTES of the configuration.
CheckIntervals == {1, 2}

\* The job queue before start_bot; -1 stands for a job that has no next run.
NoSched == [pc |-> "off", now |-> 0, interval |-> 0, once_at |-> -1,
            repeating_at |-> -1, starts |-> <<>>]

\* start_bot registers the two jobs; the clock counts the seconds from there.
start_bot ==
    /\ sched.pc = "off"
    /\ \E check_interval \in CheckIntervals :
          sched' = [pc |-> "running", now |-> 0,
                    interval |-> check_interval * SecondsPerMinute,
                    once_at |-> once_when, repeating_at |-> repeating_first,
                    starts |-> <<>>]
    /\ UNCHANGED <<sent_articles, failed_sends, task_queue, unfinished_tasks,
                   processing_hashes, session, worker_tasks, worker, cycle, once_done,
                   cycles_run, served, fetch, stats, text, env, next_id, acked, sends,
                   fail_calls, mark_calls>>

\* The job queue runs job j at its time: feed_check_job starts.  The one-off
\* job has no further run, the repeating job's next run is one interval later.
JobRuns(j) ==
    /\ sched.pc = "running"
    /\ sched.now = (IF j = "once" THEN sched.once_at ELSE sched.repeating_at)
    /\ sched' = [sched EXCEPT
                    !.starts = Append(@, [job |-> j, at |-> sched.now]),
                    !.once_at = IF j = "once" THEN -1 ELSE @,
                    !.repeating_at = IF j = "repeating" THEN sched.now + sched.interval
                                     ELSE @]
    /\ UNCHANGED <<sent_articles, failed_sends, task_queue, unfinished_tasks,
                   processing_hashes, session, worker_tasks, worker, cycle, once_done,
                   cycles_run, served, fetch, stats, text, env, next_id, acked, sends,
                   fail_calls, mark_calls>>

\* A second passes when no job is due.
Tick ==
    /\ sched.pc = "running"
    /\ sched.now < MaxTime
    /\ sched.now \notin {sched.once_at, sched.repeating_at}
    /\ sched' = [sched EXCEPT !.now = @ + 1]
    /\ UNCHANGED <<sent_articles, failed_sends, task_queue, unfinished_tasks,
                   processing_hashes, session, worker_tasks, worker, cycle, once_done,
                   cycles_run, served, fetch, stats, text, env, next_id, acked, sends,
                   fail_calls, mark_calls>>

SchedNext == start_bot \/ Tick \/ \E j \in Jobs : JobRuns(j)

----------------------------------------------------------------------------
(* The text functions: summarize_text, normalize_currency_symbols and their *)
(* counterparts of text_utils.py.  A string is the sequence of its          *)
(* characters; a character outside ASCII is written by its code point.      *)

MaxTextLen == 4

\* len(excerpt) must pass 50 before a sentence end counts: last_dot > 50.
MinDotIndex == 50

Ellipsis == <<".", ".", ".">>

\* The characters the bounded inputs of the summarizers are made of, and a
\* run of letters long enough for a sentence end behind index MinDotIndex.
TextChars == {"a", " ", ".", "<", ">"}

Letters(n) == [i \in 1..n |-> "a"]

Pads == {<<>>, Letters(MinDotIndex + 1)}

RECURSIVE SeqsUpTo(_, _)
SeqsUpTo(S, n) ==
    IF n = 0 THEN {<<>>}
    ELSE LET shorter == SeqsUpTo(S, n - 1)
         IN shorter \cup {Append(t, c) : t \in {u \in shorter : Len(u) = n - 1}, c \in S}

TextInputs == {pad \o t : pad \in Pads, t \in SeqsUpTo(TextChars, MaxTextLen)}

\* max_chars of a call: below and above the length of a pad.
MaxCharsValues == {2, MinDotIndex + 3}

\* \s of the regular expressions, over the characters of the inputs.
IsSpace(c) == c = " "

\* The end of the match of '<[^<]+?>' that starts at the '<' at position i: the
\* first '>' at i+2 or later with no '<' between; 0 when there is no match.
TagEnd(t, i) ==
    LET ends == {j \in (i + 2)..Len(t) :
                    /\ t[j] = ">"
                    /\ \A k \in (i + 1)..(j - 1) : t[k] # "<"}
    IN IF ends = {} THEN 0 ELSE CHOOSE j \in ends : \A k \in ends : j <= k

\* re.sub('<[^<]+?>', '', text): the matches are taken from left to right.
RECURSIVE StripTagsFrom(_, _)
StripTagsFrom(t, i) ==
    IF i > Len(t) THEN <<>>
    ELSE IF t[i] = "<" /\ TagEnd(t, i) # 0
         THEN StripTagsFrom(t, TagEnd(t, i) + 1)
         ELSE <<t[i]>> \o StripTagsFrom(t, i + 1)

\* re.sub(r'\s+', ' ', text): every run of whitespace becomes one space.
RECURSIVE CollapseSpacesFrom(_, _)
CollapseSpacesFrom(t, i) ==
    IF i > Len(t) THEN <<>>
    ELSE IF IsSpace(t[i])
         THEN IF i > 1 /\ IsSpace(t[i - 1])
              THEN CollapseSpacesFrom(t, i + 1)
              ELSE <<" ">> \o CollapseSpacesFrom(t, i + 1)
         ELSE <<t[i]>> \o CollapseSpacesFrom(t, i + 1)

\* str.strip(): the whitespace at the two ends is dropped.
strip(t) ==
    LET inner == {i \in 1..Len(t) : ~IsSpace(t[i])}
    IN IF inner = {} THEN <<>>
       ELSE SubSeq(t, CHOOSE i \in inner : \A k \in inner : i <= k,
                      CHOOSE i \in inner : \A k \in inner : i >= k)

\* The first two statements of summarize_text; TextSummarizer.clean_text.
clean_text(t) == strip(CollapseSpacesFrom(StripTagsFrom(t, 1), 1))

\* str.rfind(c): the 0-based index of the last c, -1 when there is none.
rfind(t, c) ==
    LET at == {i \in 1..Len(t) : t[i] = c}
    IN IF at = {} THEN -1 ELSE (CHOOSE i \in at : \A k \in at : i >= k) - 1

\* excerpt.rsplit(' ', 1)[0]: what stands before the last space, the whole
\* excerpt when it has no space.
rsplit_head(t) ==
    IF rfind(t, " ") = -1 THEN t ELSE SubSeq(t, 1, rfind(t, " "))

\* What the LSA summarizer of the sumy library does with a text: it raises (a
\* missing tokenizer resource, say), it returns no sentence, or it returns the
\* whole of a text that is one sentence.
LsaOutcomes == {"raise", "empty", "whole"}

\* ' '.join(str(s) for s in summary_sentences)
JoinSummary(t, lsa) == IF lsa = "whole" THEN t ELSE <<>>

\* summarize_text(text, max_chars) of the bot's module.
summarize_text(t, max_chars, lsa) ==
    LET cleaned == clean_text(t)
        summary_text == JoinSummary(cleaned, lsa)
        excerpt == SubSeq(cleaned, 1, max_chars)
        last_dot == rfind(excerpt, ".")
    IN IF Len(cleaned) <= max_chars THEN cleaned
       ELSE IF /\ lsa # "raise"
               /\ summary_text # <<>>
               /\ ~(2 * Len(summary_text) > 3 * max_chars)
            THEN summary_text
            ELSE IF last_dot > MinDotIndex
                 THEN SubSeq(excerpt, 1, last_dot + 1)
                 ELSE rsplit_head(excerpt) \o Ellipsis

\* TextSummarizer.smart_truncate of text_utils.py.
smart_truncate(t, max_chars) ==
    LET excerpt == SubSeq(t, 1, max_chars)
        last_dot == rfind(excerpt, ".")
    IN IF Len(t) <= max_chars THEN t
       ELSE IF last_dot > MinDotIndex
            THEN SubSeq(excerpt, 1, last_dot + 1)
            ELSE rsplit_head(excerpt) \o Ellipsis

\* TextSummarizer.summarize of text_utils.py.
TextSummarizer_summarize(t, max_chars, lsa) ==
    LET cleaned == clean_text(t)
        joined == JoinSummary(cleaned, lsa)
        summary_text == IF joined = <<>> THEN cleaned ELSE joined
    IN IF cleaned = <<>> THEN <<>>
       ELSE IF Len(cleaned) <= max_chars THEN cleaned
            ELSE IF Len(summary_text) > max_chars
                 THEN smart_truncate(summary_text, max_chars)
                 ELSE summary_text

\* str.replace(symbol, replacement): the occurrences from left to right.
RECURSIVE ReplaceFrom(_, _, _, _)
ReplaceFrom(t, i, symbol, replacement) ==
    IF i > Len(t) THEN <<>>
    ELSE IF i + Len(symbol) - 1 <= Len(t) /\ SubSeq(t, i, i + Len(symbol) - 1) = symbol
         THEN replacement \o ReplaceFrom(t, i + Len(symbol), symbol, replacement)
         ELSE <<t[i]>> \o ReplaceFrom(t, i + 1, symbol, replacement)

\* for symbol, replacement in the map's items: text = text.replace(...)
RECURSIVE ReplaceAll(_, _)
ReplaceAll(t, map) ==
    IF map = <<>> THEN t
    ELSE ReplaceAll(ReplaceFrom(t, 1, Head(map)[1], Head(map)[2]), Tail(map))

\* The replacement 'INR ' of the two maps and of the rs rule.
INR == <<"I", "N", "R", " ">>

\* currency_map of the bot's module, its keys as the file holds them.
currency_map ==
    << <<<<"U+201A", "U+00C7", "U+03C0">>, INR>>,
       <<<<"U+201A", "U+00C7", "U+00AE">>, INR>>,
       <<<<"$">>, <<"U", "S", "D", " ">>>>,
       <<<<"U+201A", "U+00C7", "U+00A8">>, <<"E", "U", "R", " ">>>>,
       <<<<"U+00AC", "U+00A3">>, <<"G", "B", "P", " ">>>>,
       <<<<"U+00AC", "U+2022">>, <<"J", "P", "Y", " ">>>>,
       <<<<"U+201A", "U+00C7", "U+00A9">>, <<"K", "R", "W", " ">>>>,
       <<<<"U+201A", "U+00C7", "U+03A9">>, <<"R", "U", "B", " ">>>> >>

\* symbol_map of text_utils.py.
symbol_map ==
    << <<<<"U+20B9">>, INR>>,
       <<<<"U+20A8">>, INR>>,
       <<<<"$">>, <<"U", "S", "D", " ">>>>,
       <<<<"U+20AC">>, <<"E", "U", "R", " ">>>>,
       <<<<"U+00A3">>, <<"G", "B", "P", " ">>>>,
       <<<<"U+00A5">>, <<"J", "P", "Y", " ">>>>,
       <<<<"U+20A9">>, <<"K", "R", "W", " ">>>>,
       <<<<"U+20BD">>, <<"R", "U", "B", " ">>>> >>

\* \w of the regular expressions, over the characters of the inputs.
IsWord(c) ==
    c \in {"a", "c", "e", "o", "r", "s", "t", "w", "R", "S", "I", "N", "U", "D",
           "E", "G", "B", "P", "J", "Y", "K", "W", "0", "5", "U+03C0", "U+03A9"}

\* The end of the match of r'\b(rs|Rs|RS)\.?\s+' that starts at position i: a
\* word boundary before, the two letters, a full stop or none, then the whole
\* run of whitespace; 0 when there is no match.
RsEnd(t, i) ==
    LET ws == IF i + 2 <= Len(t) /\ IsSpace(t[i + 2]) THEN i + 2
              ELSE IF i + 3 <= Len(t) /\ t[i + 2] = "." /\ IsSpace(t[i + 3]) THEN i + 3
              ELSE 0
        past == {j \in ws..Len(t) : ~IsSpace(t[j])}
    IN IF /\ i + 1 <= Len(t)
          /\ <<t[i], t[i + 1]>> \in {<<"r", "s">>, <<"R", "s">>, <<"R", "S">>}
          /\ (i = 1 \/ ~IsWord(t[i - 1]))
          /\ ws # 0
       THEN IF past = {} THEN Len(t) ELSE (CHOOSE j \in past : \A k \in past : j <= k) - 1
       ELSE 0

\* re.sub(r'\b(rs|Rs|RS)\.?\s+', 'INR ', text)
RECURSIVE ReplaceRsFrom(_, _)
ReplaceRsFrom(t, i) ==
    IF i > Len(t) THEN <<>>
    ELSE IF RsEnd(t, i) # 0
         THEN INR \o ReplaceRsFrom(t, RsEnd(t, i) + 1)
         ELSE <<t[i]>> \o ReplaceRsFrom(t, i + 1)

\* normalize_currency_symbols(text) of the bot's module, the one parse_feed
\* applies to titles and descriptions.
normalize_currency_symbols(t) ==
    CollapseSpacesFrom(ReplaceAll(t, currency_map), 1)

\* normalize_currency_symbols(text) of text_utils.py.
TextUtils_normalize_currency_symbols(t) ==
    CollapseSpacesFrom(ReplaceRsFrom(ReplaceAll(t, symbol_map), 1), 1)

\* Titles and descriptions with amounts of money, and bounded texts over the
\* characters the rules look at.
RupeeCrore == <<"U+20B9", "5", "0", "0", " ", "c", "r", "o", "r", "e">>
RsAmount == <<"R", "s", ".", " ", "5", "0", "0">>
WorstCase == <<"w", "o", "r", "s", "t", " ", "c", "a", "s", "e">>
CurrencyChars == {"r", "s", ".", " ", "o", "$"}

CurrencyInputs ==
    {RupeeCrore, RsAmount, WorstCase} \cup SeqsUpTo(CurrencyChars, MaxTextLen)

\* No call of a text function is going on.
NoText == [pc |-> "idle", fn |-> "none", input |-> <<>>, max_chars |-> 0,
           lsa |-> "none", result |-> <<>>]

TextFrame ==
    UNCHANGED <<sent_articles, failed_sends, task_queue, unfinished_tasks,
                processing_hashes, session, worker_tasks, worker, cycle, once_done,
                cycles_run, served, fetch, sched, stats, env, next_id, acked, sends,
                fail_calls, mark_calls>>

\* description = summarize_text(description) of parse_feed, for any text and
\* any max_chars.
SummarizeCall ==
    /\ text.pc = "idle"
    /\ \E t \in TextInputs, m \in MaxCharsValues, lsa \in LsaOutcomes :
          text' = [pc |-> "done", fn |-> "summarize_text", input |-> t,
                   max_chars |-> m, lsa |-> lsa, result |-> summarize_text(t, m, lsa)]
    /\ TextFrame

\* summarizer.summarize(text, max_chars) of text_utils.py.
TextUtilsSummarizeCall ==
    /\ text.pc = "idle"
    /\ \E t \in TextInputs, m \in MaxCharsValues, lsa \in LsaOutcomes :
          text' = [pc |-> "done", fn |-> "TextSummarizer.summarize", input |-> t,
                   max_chars |-> m, lsa |-> lsa,
                   result |-> TextSummarizer_summarize(t, m, lsa)]
    /\ TextFrame

\* title = normalize_currency_symbols(title) of parse_feed.
NormalizeCall ==
    /\ text.pc = "idle"
    /\ \E t \in CurrencyInputs :
          text' = [NoText EXCEPT !.pc = "done", !.fn = "normalize_currency_symbols",
                                 !.input = t, !.result = normalize_currency_symbols(t)]
    /\ TextFrame

\* normalize_currency_symbols(text) of text_utils.py.
TextUtilsNormalizeCall ==
    /\ text.pc = "idle"
    /\ \E t \in CurrencyInputs :
          text' = [NoText EXCEPT !.pc = "done",
                                 !.fn = "text_utils.normalize_currency_symbols",
                                 !.input = t,
                                 !.result = TextUtils_normalize_currency_symbols(t)]
    /\ TextFrame

\* The caller goes on with the result.
TextReturn ==
    /\ text.pc = "done"
    /\ text' = NoText
    /\ TextFrame

TextNext ==
    \/ SummarizeCall \/ TextUtilsSummarizeCall
    \/ NormalizeCall \/ TextUtilsNormalizeCall
    \/ TextReturn

----------------------------------------------------------------------------
(* Specifications *)

\* What the feed server serves in the runs of Spec: entries of today, one guid
\* under two titles, one title under two guids, one entry with an image.
TodayPool ==
    {e \in Entries : /\ e.published = <<"date", Today, 0>>
                     /\ e.image_url # None <=> e.guid = 2
                     /\ e.guid = 2 => e.title = "T1"}

\* No run enqueues more items than the entries it is served.
ItemIds == 1..MaxServed

InitState(e, f) ==
    /\ sent_articles = <<>>
    /\ failed_sends = <<>>
    /\ task_queue = <<>>
    /\ unfinished_tasks = 0
    /\ processing_hashes = {}
    /\ session = "none"
    /\ worker_tasks = 0
    /\ worker = WorkerOff
    /\ cycle = [j \in Jobs |-> IdleCycle]
    /\ once_done = FALSE
    /\ cycles_run = 0
    /\ served = 0
    /\ fetch = f
    /\ sched = NoSched
    /\ stats = NoStats
    /\ text = NoText
    /\ env = e
    /\ next_id = 0
    /\ acked = [i \in ItemIds |-> 0]
    /\ sends = [h \in Hashes |-> 0]
    /\ fail_calls = [h \in Hashes |-> NoFailCalls]
    /\ mark_calls = [h \in Hashes |-> NoCalls]

Init ==
    InitState([feeds |-> OneFeed, pool |-> TodayPool, max_entries |-> MaxEntries,
               max_cycles |-> MaxCycles], NoFetch)

WorkerNext ==
    \/ WorkerGet \/ WorkerImage \/ WorkerRender \/ WorkerShorten
    \/ WorkerSendOk \/ WorkerSendFlood \/ WorkerSendError
    \/ WorkerMark \/ WorkerSleep \/ WorkerFlood \/ WorkerLogFail \/ WorkerLoopError

CycleNext ==
    \E j \in Jobs : StartCycle(j) \/ CycleFetch(j) \/ CycleCheckHash(j) \/ CycleCheckTitle(j)

Next == WorkerNext \/ CycleNext \/ post_init \/ Shutdown \/ Restart

Spec == Init /\ [][Next]_vars

\* The worker's steps are taken as long as they stay enabled: every network
\* call of the worker has a timeout, the sleeps end, the thread pool answers.
\* One cycle less than in Spec.
MaxFairCycles == 1
InitFair ==
    InitState([feeds |-> OneFeed, pool |-> TodayPool, max_entries |-> MaxEntries,
               max_cycles |-> MaxFairCycles], NoFetch)

FairSpec == InitFair /\ [][Next]_vars /\ WF_vars(WorkerNext)

\* The steps of parse_feed and feed_check_job of a started job.
JobNext(j) == CycleFetch(j) \/ CycleCheckHash(j) \/ CycleCheckTitle(j)

\* The end-to-end scenario: the feed serves one entry of today, in every
\* cycle.  The steps of the worker and of a started job are taken as long as
\* they stay enabled (timeouts on the network calls, sleeps that end, a thread
\* pool that answers).
MaxScenarioCycles == 2
ScenarioPool == {e \in TodayPool : e.guid = 2}

InitScenario ==
    InitState([feeds |-> OneFeed, pool |-> ScenarioPool, max_entries |-> MaxEntries,
               max_cycles |-> MaxScenarioCycles], NoFetch)

ScenarioSpec ==
    /\ InitScenario
    /\ [][Next]_vars
    /\ WF_vars(WorkerNext)
    /\ \A j \in Jobs : WF_vars(JobNext(j))

\* What the feed server serves in the runs of FeedSpec: an entry of today
\* 00:00:00, one of later today with the same title under another guid (and an
\* image), one without a date that repeats the first guid, one of yesterday
\* 23:59:59, one with a date that does not parse.
FeedPool ==
    {[guid |-> 1, title |-> "T1", published |-> <<"date", Today, 0>>, image_url |-> None],
     [guid |-> 2, title |-> "T1", published |-> <<"date", Today, LastTime>>,
      image_url |-> "img"],
     [guid |-> 1, title |-> "T2", published |-> NoDate, image_url |-> None],
     [guid |-> 2, title |-> "T2", published |-> <<"date", Today - 1, LastTime>>,
      image_url |-> None],
     [guid |-> 2, title |-> "T2", published |-> BadDate, image_url |-> None]}

\* Two configured feeds, documents of several entries with every kind of date.
InitFeed ==
    InitState([feeds |-> TwoFeeds, pool |-> FeedPool, max_entries |-> MaxFeedEntries,
               max_cycles |-> MaxFeedCycles], NoFetch)

FeedSpec == InitFeed /\ [][Next]_vars

\* fetch_url on its own, against every script of answers.
InitFetch ==
    \E script \in Scripts :
        InitState([feeds |-> OneFeed, pool |-> TodayPool, max_entries |-> MaxEntries,
                   max_cycles |-> MaxCycles], [NoFetch EXCEPT !.script = script])

FetchSpec == InitFetch /\ [][FetchCall]_vars

\* The bot with /stats messages arriving, in the surroundings of ScenarioSpec.
StatsSpec == InitScenario /\ [][Next \/ StatsNext]_vars

\* The job queue on its own.
ScheduleSpec == Init /\ [][SchedNext]_vars

\* The text functions on their own, over the bounded inputs.
TextSpec == Init /\ [][TextNext]_vars

----------------------------------------------------------------------------
(* Properties *)

\* The items in the worker's hand and on the queue, oldest first.
InFlightItems ==
    (IF worker.pc \in Holding THEN <<worker.item>> ELSE <<>>) \o task_queue

RowsOf(table, article_hash) ==
    {i \in 1..Len(table) : table[i].article_hash = article_hash}

\* C1: no article hash is successfully sent to the chat API more than once
\* within one process lifetime, under any interleaving of the store checks, the
\* enqueue step and the worker's send, record-sent and release steps: a hash
\* that was sent in this process and has its Sent Record in the store is not
\* sent again (sends starts again from 0 in a new process).
NoDuplicateSend ==
    [][ \A h \in Hashes :
            (sends[h] >= 1 /\ is_article_sent(sent_articles, h)) => sends'[h] <= sends[h]
      ]_vars

\* C2: at every reachable state no two items that are queued or being processed
\* by the worker have the same hash.
NoTwoInFlightSameHash ==
    \A i, k \in 1..Len(InFlightItems) :
        i # k => ItemHash(InFlightItems[i]) # ItemHash(InFlightItems[k])

\* C2 witness: a job has passed both store checks for an entry whose hash is in
\* flight, put there by the other job's cycle.
OverlapOnInFlightHash ==
    \E j \in Jobs :
        /\ cycle[j].pc = "title"
        /\ ~cycle[j].res
        /\ get_hash(Head(cycle[j].entries).guid) \in processing_hashes
        /\ cycles_run = 2

\* C3: at every reachable state processing_hashes is exactly the set of hashes
\* of the items on the queue or in the worker's hand.
InFlightSetExact ==
    processing_hashes =
        {ItemHash(InFlightItems[i]) : i \in 1..Len(InFlightItems)}

\* C3 witness: the worker holds one item while another waits on the queue, and
\* the set holds the two hashes.
HeldAndQueued ==
    /\ worker.pc \in Holding
    /\ task_queue # <<>>
    /\ Cardinality(processing_hashes) = 2

Holds(i) == worker.pc \in Holding /\ worker.item.id = i

\* The state in which item i has just ended: acknowledged once, its hash out of
\* the in-flight set.
Ended(i) ==
    /\ ~Holds(i)
    /\ acked[i] = 1
    /\ worker.done.id = i
    /\ worker.done.hash \notin processing_hashes

\* C4: every item the worker dequeues eventually ends, whatever the outcome;
\* when it ends its hash is out of the in-flight set, and task_done() is called
\* exactly once for it (never twice, and the queue's count of unfinished tasks
\* is the number of items queued or in hand).
EveryItemEndsOnce ==
    /\ \A i \in ItemIds : Holds(i) ~> Ended(i)
    /\ [](\A i \in ItemIds : acked[i] <= 1)
    /\ [](unfinished_tasks = Len(InFlightItems))

\* C4 witness: an item in the worker's hand has ended by cancellation, released
\* and acknowledged.
EndedByCancel ==
    /\ worker.done.outcome = "cancelled"
    /\ Ended(worker.done.id)

\* C5: whenever delivery of an item fails with an error that is not a
\* rate-limit signal (a chat-API error, a network error, a rendering error), a
\* Failure Record for the item's hash carrying that error's message has been
\* upserted by the time the item is released.
FailureRecordedOnError ==
    worker.done.outcome \in {"telegram_error", "failed"} =>
        \E i \in 1..Len(failed_sends) :
            /\ failed_sends[i].article_hash = worker.done.hash
            /\ failed_sends[i].error_message = worker.done.err

\* C6: from the flood-control error to the end of the item, the worker writes
\* no Sent Record and no Failure Record and puts nothing on the queue; at the
\* end the item's hash is out of the in-flight set.
FloodDropsItem ==
    [][ /\ (worker.pc = "send" /\ worker'.pc = "flood") =>
              UNCHANGED <<sent_articles, failed_sends, task_queue, processing_hashes>>
        /\ (worker.pc = "flood" /\ worker'.pc # "flood") =>
              /\ UNCHANGED <<sent_articles, failed_sends, task_queue>>
              /\ ItemHash(worker.item) \notin processing_hashes'
              /\ acked'[worker.item.id] = 1
      ]_vars

\* C6 witness: an item has ended as a flood-control drop.
FloodDropHappened ==
    /\ worker.done.outcome = "flood"
    /\ ~is_article_sent(sent_articles, worker.done.hash)
    /\ RowsOf(failed_sends, worker.done.hash) = {}

\* The number N of a "Retry in N" in the message, as a set (empty without one).
RetryIn(msg) ==
    {IntOf(msg[i + 1]) : i \in {k \in 1..(Len(msg) - 1) :
                                   msg[k] = "Retry in" /\ msg[k + 1] \in DigitRuns}}

\* C7: the sleep of a flood-control drop is at least N + 1 seconds when the
\* message holds "Retry in N", and the fallback of 30 seconds when the message
\* holds no number.
FloodSleepLength ==
    worker.done.outcome = "flood" =>
        /\ \A n \in RetryIn(worker.done.err) : worker.done.slept >= n + 1
        /\ (\A i \in 1..Len(worker.done.err) : worker.done.err[i] \notin DigitRuns)
              => worker.done.slept = 30

\* C7 witness: a drop on "Retry in 12" has slept 13 seconds.
SleptThirteen ==
    /\ worker.done.outcome = "flood"
    /\ 12 \in RetryIn(worker.done.err)
    /\ worker.done.slept = 13

\* C8: once mark_article_sent has run to its end for a hash, is_article_sent
\* is true of that hash in every later state, also after a restart.
SentRecordPersists ==
    \A h \in Hashes : mark_calls[h].n >= 1 => is_article_sent(sent_articles, h)

\* C8 witness: a new process has started on a store that holds a Sent Record.
RestartedWithSentRecord ==
    /\ worker.pc = "off"
    /\ \E h \in Hashes : mark_calls[h].n >= 1
    /\ task_queue = <<>> /\ processing_hashes = {}

\* C9: after any number of mark_article_sent calls with one hash there is
\* exactly one Sent Record of that hash, and it holds the fields of the first
\* call.
SentRecordIsFirstCall ==
    \A h \in Hashes :
        /\ Cardinality(RowsOf(sent_articles, h)) = (IF mark_calls[h].n >= 1 THEN 1 ELSE 0)
        /\ \A i \in RowsOf(sent_articles, h) : sent_articles[i] = mark_calls[h].row

\* C9 witness: a second call for a hash has just returned, made with a title
\* other than the one on record.
SecondMarkOtherFields ==
    /\ worker.pc = "sleep"
    /\ mark_calls[ItemHash(worker.item)].n >= 2
    /\ worker.item.article.title # mark_calls[ItemHash(worker.item)].row.title

\* C10: after n >= 1 log_failed_send calls with one hash there is exactly one
\* Failure Record of that hash, its retry count is n and its message is that of
\* the latest call.
FailureRecordUpserted ==
    \A h \in Hashes :
        /\ Cardinality(RowsOf(failed_sends, h)) = (IF fail_calls[h].n >= 1 THEN 1 ELSE 0)
        /\ \A i \in RowsOf(failed_sends, h) :
              /\ failed_sends[i].retry_count = fail_calls[h].n
              /\ failed_sends[i].error_message = fail_calls[h].msg

\* C10 witness: two calls with one hash and two messages left a retry count of 2.
TwoFailuresOneRecord ==
    \E h \in Hashes :
        /\ fail_calls[h].n = 2
        /\ worker.done.outcome = "failed" /\ worker.done.hash = h
        /\ \E i \in RowsOf(failed_sends, h) :
              /\ failed_sends[i].retry_count = 2
              /\ failed_sends[i].error_message = <<"image file is truncated">>

\* Item i waits on the queue.
Queued(i) == \E k \in 1..Len(task_queue) : task_queue[k].id = i

\* Item i has ended sent, with its Sent Record in the store.
SentAndRecorded(i) ==
    /\ worker.done.id = i
    /\ worker.done.outcome = "sent"
    /\ is_article_sent(sent_articles, worker.done.hash)

\* Item i has ended on an error of the rendering, of the chat API or of the
\* store, or by cancellation.
EndedOnError(i) == worker.done.id = i /\ worker.done.outcome # "sent"

Stopped == worker.pc \in {"stopped", "off"}

\* Job j holds an entry that has passed the hash check and the title check and
\* whose hash is not in flight.
FreshEntry(j, h) ==
    /\ cycle[j].pc = "title"
    /\ ~cycle[j].res
    /\ get_hash(Head(cycle[j].entries).guid) = h
    /\ h \notin processing_hashes

SameDay(a) == a.pub_date[1] = "date" /\ a.pub_date[2] = Today

\* C12: parse_feed returns only articles whose publish date is the current
\* day: every article it has collected, the entry at hand once it has passed
\* the checks included, carries a date of today; an entry whose date is missing
\* or does not parse is dropped.
OnlyTodayReturned ==
    \A j \in Jobs :
        \A i \in 1..Len(Resumed(cycle[j])) : SameDay(Resumed(cycle[j])[i])

\* C13: one parse_feed call never returns two articles with the same hash, nor
\* two with the same title.
NoDuplicateInCall ==
    \A j \in Jobs :
        LET R == Resumed(cycle[j]) IN
        \A i, k \in 1..Len(R) :
            i # k => /\ get_hash(R[i].guid) # get_hash(R[k].guid)
                     /\ R[i].title # R[k].title

\* C14: once a Sent Record with title T exists, no item with title T under
\* another guid is sent to the chat.
TitleGuard ==
    [][ \A h \in Hashes :
            sends'[h] > sends[h] =>
                ~(\E i \in 1..Len(sent_articles) :
                      /\ sent_articles[i].title = worker.item.article.title
                      /\ sent_articles[i].article_hash # h)
      ]_vars

\* The step of job j with which parse_feed returns for the job's current feed
\* and feed_check_job deals with the articles.
FeedEnds(j) ==
    /\ cycle[j].pc \in {"hash", "title"}
    /\ cycle'[j].feed # cycle[j].feed
    /\ worker'.pc # "stopped"

\* The items a step has put on the queue.
NewItems == SubSeq(task_queue', Len(task_queue) + 1, Len(task_queue'))

\* a's publish timestamp is not after b's.
TimestampLeq(a, b) ==
    \/ a.pub_date[2] < b.pub_date[2]
    \/ a.pub_date[2] = b.pub_date[2] /\ a.pub_date[3] <= b.pub_date[3]

\* C15: the articles parse_feed returns for a feed are put on the queue, those
\* whose hash is in flight excepted, and the dated ones among them oldest
\* first, whatever entries the feed returned, entries without a publish date
\* included.
OldestFirst ==
    [][ \A j \in Jobs :
            FeedEnds(j) =>
                LET R == Resumed(cycle[j]) IN
                /\ \A i \in 1..Len(R) :
                      get_hash(R[i].guid) \notin processing_hashes =>
                          \E k \in 1..Len(NewItems) :
                              ItemHash(NewItems[k]) = get_hash(R[i].guid)
                /\ \A k, l \in 1..Len(NewItems) :
                      (/\ k < l
                       /\ NewItems[k].article.pub_date[1] = "date"
                       /\ NewItems[l].article.pub_date[1] = "date")
                          => TimestampLeq(NewItems[k].article, NewItems[l].article)
      ]_vars

\* C16: the queue is first in, first out and has one consumer: the items in
\* the worker's hand and on the queue are in the order in which they were put
\* (ids count the puts), and the item the worker has just ended was put before
\* all of them, so the send attempts come in enqueue order.
QueueIsFifo ==
    /\ \A k, l \in 1..Len(InFlightItems) :
          k < l => InFlightItems[k].id < InFlightItems[l].id
    /\ \A k \in 1..Len(InFlightItems) : worker.done.id < InFlightItems[k].id

\* C16 witness: the second item put is at its send attempt after the first has
\* ended.
SecondSendAfterFirst ==
    /\ worker.pc = "send"
    /\ worker.item.id = 2
    /\ acked[1] = 1

\* The attempts of fetch.script that answer 200, among those the call may make.
OkAttempts == {k \in 1..3 : fetch.script[k] = "200"}

\* C17: fetch_url makes at most 3 attempts; a connection error, a timeout and
\* a status other than 200 lead to the next attempt; it returns the body at
\* the first 200, and None (no exception) after 3 attempts without one.
FetchRetries ==
    fetch.called =>
        /\ fetch.result.attempts <= 3
        /\ IF OkAttempts = {}
           THEN fetch.result.data = None /\ fetch.result.attempts = 3
           ELSE /\ fetch.result.data = "bytes"
                /\ fetch.result.attempts \in OkAttempts
                /\ \A k \in OkAttempts : fetch.result.attempts <= k

\* C17 witness: a connection error, then a timeout, then a 200 with the body.
ThirdAttemptSucceeds ==
    /\ fetch.called
    /\ fetch.script[1] = "ClientError" /\ fetch.script[2] = "TimeoutError"
    /\ fetch.script[3] = "200"
    /\ fetch.result.data = "bytes" /\ fetch.result.attempts = 3

\* C18: the sleep after failed attempt k = 0, 1 is 5 * 2^k seconds (5, then
\* 10), and nothing is slept after the last attempt.
BackoffDelays ==
    fetch.called =>
        LET failed == fetch.result.attempts -
                         (IF fetch.result.data = "bytes" THEN 1 ELSE 0) IN
        fetch.result.delays = CASE failed = 0 -> <<>>
                                [] failed = 1 -> <<5>>
                                [] OTHER -> <<5, 10>>

\* C18 witness: three failed attempts, two sleeps.
ThreeFailuresTwoSleeps ==
    /\ fetch.called
    /\ fetch.result.data = None /\ fetch.result.attempts = 3
    /\ fetch.result.delays = <<5, 10>>

\* C19: a feed whose fetch returns no data puts nothing on the queue, and the
\* job goes on with the next configured feed: a step of a job at its fetch
\* either starts the parsing of that feed, or leaves the queue and the in-flight
\* set alone and moves to the fetch of the next feed, the cycle ending only
\* after the last.
SkipsFailedFeed ==
    [][ \A j \in Jobs :
            (cycle[j].pc = "fetch" /\ cycle'[j] # cycle[j] /\ worker'.pc # "stopped") =>
                \/ cycle'[j].pc = "hash" /\ cycle'[j].feed = cycle[j].feed
                \/ /\ task_queue' = task_queue
                   /\ processing_hashes' = processing_hashes
                   /\ IF cycle[j].feed < Len(env.feeds)
                      THEN /\ cycle'[j].pc = "fetch"
                           /\ cycle'[j].feed = cycle[j].feed + 1
                      ELSE cycle'[j] = IdleCycle
      ]_vars

\* C19 witness: the first feed gave no data and the second is being parsed.
SecondFeedAfterNoData ==
    \E j \in Jobs :
        /\ cycle[j].pc = "hash"
        /\ cycle[j].feed = 2
        /\ 1 \in cycle[j].nodata
        /\ task_queue = <<>> /\ processing_hashes = {}

\* C20: an entry with a missing or unparseable date affects only itself: when
\* parse_feed returns, every article it has collected is on the queue or
\* already in flight, and the job goes on with the remaining feeds.
MalformedEntryIsolated ==
    [][ \A j \in Jobs :
            FeedEnds(j) =>
                /\ \A i \in 1..Len(Resumed(cycle[j])) :
                      get_hash(Resumed(cycle[j])[i].guid) \in processing_hashes'
                /\ cycle[j].feed < Len(env.feeds) =>
                      (cycle'[j].pc = "fetch" /\ cycle'[j].feed = cycle[j].feed + 1)
      ]_vars

\* The worker task is running its loop.
InLoop == worker.pc \notin {"off", "stopped"}

\* The step cancels the worker task (the process stops).
Cancelled == worker'.pc = "stopped" /\ worker_tasks' = 0 /\ session' # "open"

\* C21: the worker loop ends only by cancellation: a step takes the worker out
\* of its loop only when it cancels the task; whatever the failure-recording
\* step does, a store error included, the item is released and the worker goes
\* to the next get, through the one-second sleep of the loop's handler when the
\* store call raised.
WorkerLoopGoesOn ==
    [][ /\ (InLoop /\ ~InLoop') => Cancelled
        /\ (worker.pc = "logfail" /\ worker' # worker /\ ~Cancelled) =>
              (worker'.pc \in {"get", "loop_error"} /\ worker'.item = NoItem)
        /\ (worker.pc = "loop_error" /\ worker' # worker /\ ~Cancelled) =>
              worker'.pc = "get"
      ]_vars

\* C21 witness: log_failed_send raised, the loop's handler has slept, and the
\* worker is back at the queue's get with an item waiting.
BackAtGetAfterLoopError ==
    /\ worker.pc = "get"
    /\ worker.done.outcome = "failed_unrecorded"
    /\ task_queue # <<>>

\* The sends to the chat API in progress: one per worker task at send_photo.
SendsInProgress == IF worker.pc = "send" THEN worker_tasks ELSE 0

SendSucceeded == worker.pc \in Holding /\ worker.mess_id # None

\* The step ends the pass of the item in the worker's hand.
PassEnds == worker.pc \in Holding /\ worker'.pc \notin Holding

\* C23: after a successful send the Sent Record is written before the sleep,
\* and the pass of an item whose send succeeded ends only after the 4 seconds
\* of the post-send sleep, so the next item's send attempt comes at least that
\* much later.
PostSendDelay ==
    /\ [](worker.pc = "sleep" => is_article_sent(sent_articles, ItemHash(worker.item)))
    /\ [][ (SendSucceeded /\ PassEnds /\ ~Cancelled) =>
               worker'.done.slept = PostSendSleep ]_vars

\* C24: a Sent Record for hash h is written only by the pass of an item of
\* hash h whose send_photo has returned; nothing else adds a row.
SentRecordOnlyAfterSend ==
    [][ \A h \in Hashes :
            (is_article_sent(sent_articles', h) /\ ~is_article_sent(sent_articles, h)) =>
                (SendSucceeded /\ ItemHash(worker.item) = h)
      ]_vars

\* C24 witness: the item in hand is sent and recorded, and the item on the
\* queue has no Sent Record.
RecordedWhileOtherQueued ==
    /\ worker.pc = "sleep"
    /\ is_article_sent(sent_articles, ItemHash(worker.item))
    /\ task_queue # <<>>
    /\ \A k \in 1..Len(task_queue) : ~is_article_sent(sent_articles, ItemHash(task_queue[k]))

\* C25: no Failure Record is created or incremented by the pass of an item
\* whose send_photo has returned, whatever mark_article_sent does afterwards.
FailureOnlyForUndelivered ==
    [][ failed_sends' # failed_sends => ~SendSucceeded ]_vars

\* The image fetch of the item in hand was made and gave no data.
ImageFailed ==
    /\ worker.pc \in Holding \ {"image"}
    /\ worker.item.article.image_url # None
    /\ worker.image_data = None

\* The links the button of a message can carry.
Links == {"long", "short"}

\* C26: a failed image fetch is not fatal: the worker goes from the fetch to
\* the rendering with the item in hand and no image, writing no Failure Record;
\* an item whose image fetch failed is at log_failed_send only with an error of
\* the renderer or of the store, and reaches the send step.
ImageFailureNonFatal ==
    /\ [][ (worker.pc = "image" /\ worker' # worker /\ ~Cancelled) =>
               /\ worker'.pc = "render"
               /\ worker'.item = worker.item
               /\ failed_sends' = failed_sends ]_vars
    /\ []((ImageFailed /\ worker.pc = "logfail") =>
              worker.err \in RenderErrors \cup StoreErrors)

\* C26 witness: the image fetch gave no data and the item is at the send step.
SendWithoutImage ==
    /\ ImageFailed
    /\ worker.pc = "send"
    /\ session = "open"
    /\ failed_sends = <<>>

\* The service did not give a short link: no session, an exception, a timeout,
\* a status other than 200, a body that is not JSON, or a JSON body without a
\* link.
ShortenerFailed(answer) ==
    \/ answer.kind # "response"
    \/ answer.status # 200
    \/ ~answer.body.json
    \/ answer.body.data_url = None /\ answer.body.url = None

RecordCarriesMessageId ==
    [][ \A h \in Hashes :
            (is_article_sent(sent_articles', h) /\ ~is_article_sent(sent_articles, h)) =>
                \A i \in RowsOf(sent_articles', h) :
                    sent_articles'[i].telegram_message_id = worker.mess_id
      ]_vars

\* C29: one fetch cycle starts at startup (the one-off job, one second after
\* the jobs are registered) and every later cycle starts one full poll interval
\* after the start of the cycle before it.
CyclesOneIntervalApart ==
    sched.pc = "running" =>
        /\ sched.now > once_when =>
              (sched.starts # <<>> /\ sched.starts[1].at = once_when)
        /\ \A k \in 2..Len(sched.starts) :
              sched.starts[k].at = sched.starts[k - 1].at + sched.interval

\* C30: stats() is read-only and exact: neither step of stats_command changes
\* the Sent Records, the Failure Records, the queue or the in-flight set, and
\* the query returns total_sent = the number of Sent Records and
\* pending_failures = the number of Failure Records that are not resolved.
StatsReadOnly ==
    [][ (stats' # stats /\ stats'.pc # stats.pc /\ ~Cancelled) =>
            /\ sent_articles' = sent_articles
            /\ failed_sends' = failed_sends
            /\ task_queue' = task_queue
            /\ processing_hashes' = processing_hashes
            /\ stats'.pc = "reply" =>
                  /\ stats'.result.total_sent = Len(sent_articles)
                  /\ stats'.result.pending_failures =
                        Cardinality({i \in 1..Len(failed_sends) : ~failed_sends[i].resolved})
      ]_vars

\* C30 witness: the query has returned one Sent Record and one pending failure
\* while an item is in flight.
StatsWithBothRecords ==
    /\ stats.pc = "reply"
    /\ stats.result.total_sent = 1
    /\ stats.result.pending_failures = 1
    /\ Len(sent_articles) = 1 /\ Len(failed_sends) = 1

----------------------------------------------------------------------------
(* Shutdown and restart *)

\* The hashes of the items waiting in the queue.
QueuedHashes == {ItemHash(task_queue[k]) : k \in 1..Len(task_queue)}

\* The step starts a new process after a stop.
Restarted == worker.pc = "stopped" /\ worker'.pc = "off"

----------------------------------------------------------------------------
(* The text functions *)

\* C32: the summarizer returns its input unchanged whenever the input is at
\* most max_chars characters long, markup and repeated whitespace included.
ShortTextUnchanged ==
    (/\ text.pc = "done"
     /\ text.fn \in {"summarize_text", "TextSummarizer.summarize"}
     /\ Len(text.input) <= text.max_chars)
        => text.result = text.input

\* C33: for every input text and every max_chars the summarizer's output is no
\* longer than its input, on every path.
NoLongerThanInput ==
    (text.pc = "done" /\ text.fn \in {"summarize_text", "TextSummarizer.summarize"})
        => Len(text.result) <= Len(text.input)

\* C34: the currency normalization the fetch pipeline applies maps the rupee
\* sign followed by "500 crore" to "INR 500 crore" and "Rs. 500" to "INR 500",
\* and leaves "worst case" as it is.
CurrencyExamples ==
    (text.pc = "done" /\ text.fn = "normalize_currency_symbols") =>
        /\ text.input = RupeeCrore =>
              text.result = INR \o <<"5", "0", "0", " ", "c", "r", "o", "r", "e">>
        /\ text.input = RsAmount => text.result = INR \o <<"5", "0", "0">>
        /\ text.input = WorstCase => text.result = WorstCase

----------------------------------------------------------------------------
(* The image generator *)

\* C35: the image generator is handed the bytes the worker fetched, or none,
\* and makes no network request of its own while it renders an item.
RendererMakesNoRequest ==
    worker.pc \in Holding => worker.gets = <<>>

----------------------------------------------------------------------------
(* Retry of an undelivered article *)

\* The outcomes of a pass that delivered nothing or recorded nothing.
DropOrFailure == {"flood", "telegram_error", "failed", "failed_unrecorded"}

\* The last item the worker ended had hash h and ended as a rate-limited drop
\* or as a failure.
EndedUndelivered(h) == worker.done.hash = h /\ worker.done.outcome \in DropOrFailure

----------------------------------------------------------------------------
(* The Failure Records over time *)

\* What stats() reports as pending_failures in the current state.
PendingFailures == get_stats(sent_articles, failed_sends).pending_failures

\* C37: no operation marks a Failure Record resolved or deletes one: every
\* record is unresolved, every step keeps the records there are, for the same
\* hashes, and the pending_failures value of stats() never decreases, a later
\* delivery of the record's article and a restart included.
FailuresNeverResolved ==
    /\ [](\A i \in 1..Len(failed_sends) : ~failed_sends[i].resolved)
    /\ [][ /\ Len(failed_sends') >= Len(failed_sends)
           /\ \A i \in 1..Len(failed_sends) :
                 /\ failed_sends'[i].article_hash = failed_sends[i].article_hash
                 /\ ~failed_sends'[i].resolved
           /\ get_stats(sent_articles', failed_sends').pending_failures >= PendingFailures
         ]_vars

\* C37 witness: the article of a Failure Record was delivered later, once, and
\* has its Sent Record; the worker is back at the queue and the failure still
\* counts as pending.
PendingAfterDelivery ==
    \E h \in Hashes :
        /\ RowsOf(failed_sends, h) # {}
        /\ RowsOf(sent_articles, h) # {}
        /\ sends[h] = 1
        /\ worker.pc = "get"
        /\ worker.done.hash = h /\ worker.done.outcome = "sent"
        /\ PendingFailures >= 1

----------------------------------------------------------------------------
(* A fetch cycle without a session *)

\* The step starts a fetch cycle while the process has no session.
CycleStartsWithoutSession == cycles_run' = cycles_run + 1 /\ session # "open"

\* C38: a fetch cycle that runs while no network session exists fetches no
\* feed and leaves the queue, the in-flight set and the store unchanged: the
\* job is over at once, and a job is at work on a feed only in a process that
\* has a session.
NoSessionNoFetch ==
    /\ [](\A j \in Jobs : cycle[j].pc # "idle" => session = "open")
    /\ [][ CycleStartsWithoutSession =>
              /\ cycle' = cycle
              /\ served' = served
              /\ task_queue' = task_queue
              /\ unfinished_tasks' = unfinished_tasks
              /\ processing_hashes' = processing_hashes
              /\ sent_articles' = sent_articles
              /\ failed_sends' = failed_sends ]_vars

\* C38 witness: the one-off job has fired in a process that has no session
\* yet; no job is at work and nothing is queued or in flight.
FiredWithoutSession ==
    /\ once_done
    /\ session = "none"
    /\ cycles_run >= 1
    /\ \A j \in Jobs : cycle[j].pc = "idle"
    /\ task_queue = <<>> /\ processing_hashes = {}

----------------------------------------------------------------------------
(* The in-flight set on the success path *)

\* The worker holds an item whose send succeeded and whose Sent Record is
\* written: it is in the post-send delay, the hash not yet released.
InPostSendDelay == worker.pc = "sleep"

\* C39: on the success path the hash stays in the in-flight set until the
\* post-send delay is over: it is in the set while the send is recorded and
\* during the delay; from the writing of the Sent Record to the release no
\* fetch cycle enqueues that hash; and between its enqueue and its release a
\* hash is never out of both the in-flight set and the Sent Records.
InFlightThroughDelay ==
    /\ [](worker.pc \in {"mark", "sleep"} => ItemHash(worker.item) \in processing_hashes)
    /\ [](\A k \in 1..Len(InFlightItems) :
             \/ ItemHash(InFlightItems[k]) \in processing_hashes
             \/ RowsOf(sent_articles, ItemHash(InFlightItems[k])) # {})
    /\ [][ InPostSendDelay =>
              \A k \in (Len(task_queue) + 1)..Len(task_queue') :
                  ItemHash(task_queue'[k]) # ItemHash(worker.item) ]_vars

\* C39 witness: during the post-send delay of an item a fetch cycle holds an
\* entry of the same hash that passed the store's checks before the Sent
\* Record was written; only the in-flight set keeps it off the queue.
CycleHoldsHashInDelay ==
    /\ InPostSendDelay
    /\ RowsOf(sent_articles, ItemHash(worker.item)) # {}
    /\ \E j \in Jobs :
          /\ cycle[j].pc = "title"
          /\ ~cycle[j].res
          /\ get_hash(Head(cycle[j].entries).guid) = ItemHash(worker.item)

====
